---- MODULE Spec2Model ----
(***************************************************************************)
(* A model of the NGDP client of src/main.py: the FlatINI configuration    *)
(* container, the NGDPCache file store and the NGDPConnection client.      *)
(*                                                                         *)
(* A Python str / bytes value is a sequence of one-character strings.      *)
(* A text (the body of a response, a cached file) is the sequence of its   *)
(* lines, each line without its line terminator.                           *)
(***************************************************************************)
EXTENDS Integers, Sequences, FiniteSets, Bags, TLC

VARIABLES
    region,      \* NGDPConnection.region
    cache,       \* the files under NGDPCache.basedir: <<key, name>> -> content
    obj_cache,   \* NGDPConnection._obj_cache: path -> parsed rows
    cdn_host,    \* NGDPConnection._cdn_host: <<>> for None, <<url>> once set
    gen,         \* the generator object of the versions property
    op,          \* the last client operation and its arguments
    outcome,     \* how it ended: "ok" or the exception it raised
    ret,         \* what it returned
    trace,       \* the requests, cache accesses and returns it made, in order
    succeeded,   \* the get_or_cache argument triples that had returned before it
    asked,       \* per manifest path, the patch-host requests issued so far
    manifest,    \* per memoized manifest path, the text its rows were parsed from
    nops,        \* the number of client operations so far
    ini,         \* a FlatINI object
    iniText,     \* the lines handed to FlatINI.readfp
    iniLog,      \* the <<key, value>> pairs handed to FlatINI.__setitem__ so far
    iniPc,       \* whether readfp has run on the FlatINI object
    threads      \* per thread that calls get_or_cache: where it is in it, and its locals

vars == <<region, cache, obj_cache, cdn_host, gen, op, outcome, ret, trace,
          succeeded, asked, manifest, nops, ini, iniText, iniLog, iniPc, threads>>

clientVars == <<region, cache, obj_cache, cdn_host, gen, op, outcome, ret, trace,
                succeeded, asked, manifest, nops>>

iniVars == <<ini, iniText, iniLog, iniPc>>

(***************************************************************************)
(* str methods                                                             *)
(***************************************************************************)

\* s[a:b] with Python's clamping, a and b counted from 0
Slice(s, a, b) ==
    LET hi == IF b < Len(s) THEN b ELSE Len(s)
    IN  IF a >= hi THEN <<>> ELSE SubSeq(s, a + 1, hi)

RECURSIVE LStrip(_)
LStrip(s) ==
    IF s # <<>> /\ Head(s) = " " THEN LStrip(Tail(s)) ELSE s

RECURSIVE RStrip(_)
RStrip(s) ==
    IF s # <<>> /\ s[Len(s)] = " " THEN RStrip(SubSeq(s, 1, Len(s) - 1)) ELSE s

\* str.strip()
Strip(s) == RStrip(LStrip(s))

\* str.startswith(p)
StartsWith(s, p) == Len(s) >= Len(p) /\ SubSeq(s, 1, Len(p)) = p

\* the index of the first occurrence of character c in s, 0 when there is none
Find(s, c) ==
    IF \E i \in 1..Len(s) : s[i] = c
    THEN CHOOSE i \in 1..Len(s) : s[i] = c /\ \A j \in 1..(i - 1) : s[j] # c
    ELSE 0

\* str.partition(c)
Partition(s, c) ==
    LET i == Find(s, c)
    IN  IF i = 0 THEN <<s, <<>>, <<>>>>
        ELSE <<SubSeq(s, 1, i - 1), <<c>>, SubSeq(s, i + 1, Len(s))>>

\* str.split(c)
RECURSIVE Split(_, _)
Split(s, c) ==
    LET i == Find(s, c)
    IN  IF i = 0 THEN <<s>>
        ELSE <<SubSeq(s, 1, i - 1)>> \o Split(SubSeq(s, i + 1, Len(s)), c)

(***************************************************************************)
(* FlatINI: an OrderedDict is the sequence of its entries in insertion     *)
(* order; an entry holds a scalar (list = FALSE, v the value) or a list    *)
(* (list = TRUE, v the sequence of its items).                             *)
(***************************************************************************)

EmptyINI == <<>>

\* key in self
HasKey(d, key) == \E i \in 1..Len(d) : d[i].k = key

KeyIndex(d, key) == CHOOSE i \in 1..Len(d) : d[i].k = key

\* a plausible slip: a repeated key replaces the stored value
SetItemOverwrite(d, key, value) ==
    IF HasKey(d, key)
    THEN [d EXCEPT ![KeyIndex(d, key)] = [k |-> key, list |-> FALSE, v |-> value]]
    ELSE Append(d, [k |-> key, list |-> FALSE, v |-> value])

\* FlatINI.__setitem__
SetItem(d, key, value) ==
    IF HasKey(d, key)
    THEN LET i == KeyIndex(d, key)
             promoted == IF d[i].list THEN d
                         ELSE [d EXCEPT ![i] = [k |-> key, list |-> TRUE, v |-> <<d[i].v>>]]
         IN  [promoted EXCEPT ![i].v = Append(@, value)]
    ELSE Append(d, [k |-> key, list |-> FALSE, v |-> value])

\* FlatINI.items
RECURSIVE Items(_)
Items(d) ==
    IF d = <<>> THEN <<>>
    ELSE LET e == Head(d)
         IN  (IF e.list THEN [i \in 1..Len(e.v) |-> <<e.k, e.v[i]>>] ELSE <<<<e.k, e.v>>>>)
             \o Items(Tail(d))

\* the <<key, value>> pair FlatINI.readfp stores for one line, <<>> for a line it skips
LinePair(rawline) ==
    LET line == Strip(rawline)
    IN  IF line = <<>> \/ StartsWith(line, <<"#">>) THEN <<>>
        ELSE LET p == Partition(line, "=")
             IN  <<Strip(p[1]), Strip(Strip(p[3]))>>

\* FlatINI.readfp
RECURSIVE Readfp(_, _)
Readfp(d, lines) ==
    IF lines = <<>> THEN d
    ELSE LET kv == LinePair(Head(lines))
         IN  Readfp(IF kv = <<>> THEN d ELSE SetItem(d, kv[1], kv[2]), Tail(lines))

\* FlatINI.__str__: the lines of "\n".join( "{} = {}".format( k, v ) ... )
__str__(d) ==
    [i \in 1..Len(Items(d)) |-> Items(d)[i][1] \o <<" ", "=", " ">> \o Items(d)[i][2]]

(***************************************************************************)
(* The strings of the program and of the modelled hosts' answers           *)
(***************************************************************************)

KeyConfig == <<"c", "o", "n", "f", "i", "g">>

KeyData == <<"d", "a", "t", "a">>

KeyPatch == <<"p", "a", "t", "c", "h">>

KeyCdns == <<"c", "d", "n", "s">>

PathCdns == <<"/", "c", "d", "n", "s">>

PathVersions == <<"/", "v", "e", "r", "s", "i", "o", "n", "s">>

ColName == <<"N", "a", "m", "e">>

ColPath == <<"P", "a", "t", "h">>

ColHosts == <<"H", "o", "s", "t", "s">>

ColRegion == <<"R", "e", "g", "i", "o", "n">>

ColBuildConfig == <<"B", "u", "i", "l", "d", "C", "o", "n", "f", "i", "g">>

ColCDNConfig == <<"C", "D", "N", "C", "o", "n", "f", "i", "g">>

HttpScheme == <<"h", "t", "t", "p", ":", "/", "/">>

IndexSuffix == <<".", "i", "n", "d", "e", "x">>

RegionKr == <<"k", "r">>

HashA == <<"a", "1", "b", "2", "c", "3">>

HashB == <<"d", "4", "e", "5", "f", "6">>

CdnsHeader == <<"N", "a", "m", "e", "!", "S", "T", "R", "I", "N", "G", ":", "0", "|", "P", "a", "t", "h", "!", "S", "T", "R", "I", "N", "G", ":", "0", "|", "H", "o", "s", "t", "s", "!", "S", "T", "R", "I", "N", "G", ":", "0">>

CdnsRowEu == <<"e", "u", "|", "t", "p", "r", "/", "e", "u", "|", "e", "1", ".", "c", "d", "n", " ", "e", "2", ".", "c", "d", "n">>

CdnsRowUs == <<"u", "s", "|", "t", "p", "r", "/", "u", "s", "|", "u", "1", ".", "c", "d", "n">>

CdnsRowKr == <<"k", "r", "|", "t", "p", "r", "/", "k", "r", "|", "k", "1", ".", "c", "d", "n", " ", "k", "2", ".", "c", "d", "n">>

CdnsRowKr2 == <<"k", "r", "|", "t", "p", "r", "/", "k", "2", "|", "k", "3", ".", "c", "d", "n">>

VersionsHeader == <<"R", "e", "g", "i", "o", "n", "!", "S", "T", "R", "I", "N", "G", ":", "0", "|", "B", "u", "i", "l", "d", "C", "o", "n", "f", "i", "g", "!", "H", "E", "X", ":", "1", "6", "|", "C", "D", "N", "C", "o", "n", "f", "i", "g", "!", "H", "E", "X", ":", "1", "6">>

VersionsRowUs == <<"u", "s", "|", "d", "4", "e", "5", "f", "6", "|", "d", "4", "e", "5", "f", "6">>

VersionsRowKr1 == <<"k", "r", "|", "a", "1", "b", "2", "c", "3", "|", "d", "4", "e", "5", "f", "6">>

VersionsRowKr2 == <<"k", "r", "|", "d", "4", "e", "5", "f", "6", "|", "a", "1", "b", "2", "c", "3">>

ErrorLine == <<"N", "o", "t", " ", "F", "o", "u", "n", "d">>

CfgLine1 == <<"a", " ", "=", " ", "1">>

CfgLine2 == <<"#", " ", "c">>

CfgLine3 == <<"b", "=", "2">>

CfgLine4 == <<"a", "=", "3">>

DigestNoRows == <<"m", "0">>

DigestEuUs == <<"m", "1">>

DigestEuKr == <<"m", "2">>

DigestEmpty == <<"m", "3">>

DigestError == <<"m", "4">>

DigestVersions == <<"m", "5">>

StatusOK == 200

\* a value a variable may hold with more than one Python type carries its type
Str(s) == [t |-> "str", s |-> s, d |-> <<>>]

Obj(d) == [t |-> "FlatINI", s |-> <<>>, d |-> d]

\* an optional argument or attribute: <<>> is None, <<x>> is the value x
Some(x) == <<x>>

EmptyDict == [x \in {} |-> <<>>]

Min(a, b) == IF a < b THEN a ELSE b

(***************************************************************************)
(* The modelled hosts' answers.  A response is [status, body].             *)
(***************************************************************************)

EmptyBody == <<>>

CdnsNoRows == <<CdnsHeader>>

CdnsEuUs == <<CdnsHeader, CdnsRowEu, CdnsRowUs>>

CdnsEuKr == <<CdnsHeader, CdnsRowEu, CdnsRowKr, CdnsRowKr2>>

ErrorPage == <<ErrorLine>>

VersionsBody == <<VersionsHeader, VersionsRowUs, VersionsRowKr1, VersionsRowKr2>>

ConfigOne == <<CfgLine1>>

ConfigTwo == <<CfgLine2, CfgLine1, CfgLine3, CfgLine4>>

Resp(status, body) == [status |-> status, body |-> body]

\* what the patch host may answer to GET /cdns
CdnsResponses ==
    {Resp(StatusOK, b) : b \in {CdnsNoRows, CdnsEuUs, CdnsEuKr, EmptyBody}}
        \cup {Resp(404, ErrorPage)}

\* what the patch host may answer to GET /versions
VersionsResponses ==
    {Resp(StatusOK, b) : b \in {VersionsBody, EmptyBody}} \cup {Resp(404, ErrorPage)}

\* what the CDN may answer to a content request
ContentResponses ==
    {Resp(StatusOK, b) : b \in {ConfigOne, ConfigTwo}} \cup {Resp(404, ErrorPage)}

Hashes == {HashA, HashB}

Paths == {PathCdns, PathVersions}

\* hashlib.md5(content).hexdigest(): one digest per content
Md5(content) ==
    CASE content = CdnsNoRows -> DigestNoRows
      [] content = CdnsEuUs -> DigestEuUs
      [] content = CdnsEuKr -> DigestEuKr
      [] content = EmptyBody -> DigestEmpty
      [] content = ErrorPage -> DigestError
      [] content = VersionsBody -> DigestVersions

(***************************************************************************)
(* NGDPCache: the files of the file system, path -> content                *)
(***************************************************************************)

\* os.path.join( path, b ) for one more component b
JoinOne(path, b) ==
    IF b # <<>> /\ Head(b) = "/" THEN b
    ELSE IF path = <<>> \/ path[Len(path)] = "/" THEN path \o b
    ELSE path \o <<"/">> \o b

\* os.path.join( parts[1], ..., parts[n] )
RECURSIVE Join(_)
Join(parts) ==
    IF Len(parts) = 1 THEN parts[1]
    ELSE JoinOne(Join(SubSeq(parts, 1, Len(parts) - 1)), parts[Len(parts)])

\* XDG_CACHE_HOME
XdgCacheHome == <<"/", "h", "/", ".", "c", "a", "c", "h", "e">>

\* the domain NGDPConnection.__init__ gives its cache
Domain == <<"i", "n", "f", "o", ".", "h", "e", "a", "r", "t", "h", "s", "i", "m", ".", "k", "e", "g">>

\* NGDPCache.__init__: self.basedir
Basedir == Join(<<XdgCacheHome, Domain>>)

\* a slip: contains and get look under the hash-prefix directories of the name
CachePathSharded(key, name) ==
    Join(<<Basedir, key, Slice(name, 0, 2), Slice(name, 2, 4), name>>)

\* path = os.path.join( self.basedir, key, name )
CachePath(key, name) == Join(<<Basedir, key, name>>)

\* NGDPCache.contains
CacheContains(c, key, name) == CachePath(key, name) \in DOMAIN c

\* NGDPCache.get
CacheGet(c, key, name) == c[CachePath(key, name)]

\* the file system after writing data to the file at path f
FileWrite(c, f, data) == [g \in DOMAIN c \cup {f} |-> IF g = f THEN data ELSE c[g]]

\* open( fname, "wb" ) in NGDPCache.write: the file exists and is empty
CacheOpen(c, key, name) == FileWrite(c, Join(<<Join(<<Basedir, key>>), name>>), <<>>)

\* NGDPCache.write
CacheWrite(c, key, name, data) ==
    FileWrite(CacheOpen(c, key, name), Join(<<Join(<<Basedir, key>>), name>>), data)

(***************************************************************************)
(* The client's methods.  A method takes the state st it starts in         *)
(* ([cache, obj, cdn, tr, asked, text]) and the answers of the hosts it may      *)
(* query, and gives [st, exc, val]: the state it leaves, the exception it  *)
(* raises ("ok" for none) and the value it returns.                        *)
(***************************************************************************)

Ok(st, v) == [st |-> st, exc |-> "ok", val |-> v]

Raise(st, e) == [st |-> st, exc |-> e, val |-> <<>>]

Event(e, k, v) == [e |-> e, k |-> k, v |-> v]

Log(st, ev) == [st EXCEPT !.tr = Append(@, ev)]

\* a slip in the second slice of split_hash
split_hash_off(hash) == <<Slice(hash, 0, 2), Slice(hash, 3, 5), hash>>

\* split_hash
split_hash(hash) == <<Slice(hash, 0, 2), Slice(hash, 2, 4), hash>>

\* csv.reader(StringIO(text), delimiter="|"): one list of cells per line
CsvReader(text) ==
    [i \in 1..Len(text) |-> IF text[i] = <<>> THEN <<>> ELSE Split(text[i], "|")]

\* { k: v for k, v in zip(column_names, row) }
ZipDict(column_names, row) ==
    LET n == Min(Len(column_names), Len(row))
        last(k) == CHOOSE i \in 1..n :
                       column_names[i] = k /\ \A j \in (i + 1)..n : column_names[j] # k
    IN  [k \in {column_names[i] : i \in 1..n} |-> Str(row[last(k)])]

\* a slip: the rows come out last line first
_parse_csv_reversed(rows) ==
    LET columns == rows[1]
        column_names == [i \in 1..Len(columns) |-> Split(columns[i], "!")[1]]
    IN  [j \in 1..(Len(rows) - 1) |-> ZipDict(column_names, rows[Len(rows) - j + 1])]

\* NGDPConnection._parse_csv, for a non-empty list of rows
_parse_csv(rows) ==
    LET columns == rows[1]
        column_names == [i \in 1..Len(columns) |-> Split(columns[i], "!")[1]]
    IN  [j \in 1..(Len(rows) - 1) |-> ZipDict(column_names, rows[j + 1])]

\* NGDPConnection._parse_csv: columns = rows[0] of an empty list raises IndexError
ParseRows(st, reader) ==
    IF reader = <<>> THEN Raise(st, "IndexError") ELSE Ok(st, _parse_csv(reader))

\* NGDPConnection.get: the request goes out and the response comes back as it is
Get(st, path, r) ==
    Log([st EXCEPT !.asked[path] = @ + 1], Event("patch_get", path, r.status))

MemoPut(obj, path, rows) ==
    [p \in DOMAIN obj \cup {path} |-> IF p = path THEN rows ELSE obj[p]]

\* self.cache.write( "cdns", hash, res.content, hash )
WriteManifest(st, hash, content) ==
    Log([st EXCEPT !.cache = CacheWrite(@, KeyCdns, hash, content)],
        Event("write", <<KeyCdns, hash>>, content))

\* self._obj_cache[path] = rows, and the text the rows came from
Memoize(st, path, text, rows) ==
    Ok([st EXCEPT !.obj = MemoPut(@, path, rows), !.text = MemoPut(@, path, text)], rows)

\* self._parse_csv( reader ) and the assignment of its result: rows[0] of an empty
\* list raises IndexError
ParseAndMemoize(st, path, text, reader) ==
    IF reader = <<>> THEN Raise(st, "IndexError")
    ELSE Memoize(st, path, text, _parse_csv(reader))

\* a slip: _get_cached_csv without its test of the memo
_get_cached_csv_refetch(st, path, r) ==
    ParseAndMemoize(WriteManifest(Get(st, path, r), Md5(r.body), r.body),
                    path, r.body, CsvReader(r.body))

\* NGDPConnection._get_cached_csv
_get_cached_csv(st, path, r) ==
    IF path \in DOMAIN st.obj THEN Ok(st, st.obj[path])
    ELSE ParseAndMemoize(WriteManifest(Get(st, path, r), Md5(r.body), r.body),
                         path, r.body, CsvReader(r.body))

\* a slip: the fallback takes the last descriptor
SelectCdnLast(cdns, reg) ==
    LET stop(i) == ColName \notin DOMAIN cdns[i] \/ cdns[i][ColName] = Str(reg)
    IN  IF \E i \in 1..Len(cdns) : stop(i)
        THEN LET m == CHOOSE i \in 1..Len(cdns) : stop(i) /\ \A j \in 1..(i - 1) : ~stop(j)
             IN  IF ColName \in DOMAIN cdns[m] THEN <<cdns[m]>> ELSE <<>>
        ELSE <<cdns[Len(cdns)]>>

\* the for ... break ... else of NGDPConnection.cdn: the descriptor it ends with,
\* <<>> when a row it inspects has no Name
SelectCdn(cdns, reg) ==
    LET stop(i) == ColName \notin DOMAIN cdns[i] \/ cdns[i][ColName] = Str(reg)
    IN  IF \E i \in 1..Len(cdns) : stop(i)
        THEN LET m == CHOOSE i \in 1..Len(cdns) : stop(i) /\ \A j \in 1..(i - 1) : ~stop(j)
             IN  IF ColName \in DOMAIN cdns[m] THEN <<cdns[m]>> ELSE <<>>
        ELSE <<cdns[1]>>

\* "http://{cdn}/{path}/".format( cdn=cdn["Hosts"].split(" ")[0], path=cdn["Path"] )
CdnUrl(cdn) ==
    HttpScheme \o Split(cdn[ColHosts].s, " ")[1] \o <<"/">> \o cdn[ColPath].s \o <<"/">>

\* self._cdn_host = url; return self._cdn_host
SetCdnHost(st, url) == Ok([st EXCEPT !.cdn = Some(url)], url)

\* the lines of NGDPConnection.cdn after the loop, for the descriptor it ended with
UseCdn(st, sel) ==
    IF sel = <<>> \/ {ColHosts, ColPath} \ DOMAIN sel[1] # {} THEN Raise(st, "KeyError")
    ELSE SetCdnHost(st, CdnUrl(sel[1]))

\* a slip: an empty descriptor list raises the plain ServerError
ResolveCdnPlain(c) ==
    IF c.exc # "ok" THEN c
    ELSE IF c.val = <<>> THEN Raise(c.st, "ServerError")
    ELSE UseCdn(c.st, SelectCdn(c.val, region))

\* NGDPConnection.cdn from the result c of self.cdns on
ResolveCdn(c) ==
    IF c.exc # "ok" THEN c
    ELSE IF c.val = <<>> THEN Raise(c.st, "ServerConfigurationError")
    ELSE UseCdn(c.st, SelectCdn(c.val, region))

\* NGDPConnection.cdn
Cdn(st, rc) ==
    IF st.cdn # <<>> /\ st.cdn[1] # <<>> THEN Ok(st, st.cdn[1])
    ELSE ResolveCdn(_get_cached_csv(st, PathCdns, rc))

\* a slip: a failed content request forgets the resolved CDN
CheckStatusReset(st, r) ==
    IF r.status # StatusOK THEN Raise([st EXCEPT !.cdn = <<>>], "ServerError")
    ELSE Ok(st, r.body)

\* the status test of NGDPConnection.cdn_get on the response r
CheckStatus(st, r) ==
    IF r.status # StatusOK THEN Raise(st, "ServerError") ELSE Ok(st, r.body)

\* a slip: a request answered with another status than 200 is issued once more
RequestContentRetry(c, path, r) ==
    IF c.exc # "ok" THEN c
    ELSE IF r.status = StatusOK
    THEN CheckStatus(Log(c.st, Event("cdn_get", c.val \o path, r.status)), r)
    ELSE CheckStatus(Log(Log(c.st, Event("cdn_get", c.val \o path, r.status)),
                         Event("cdn_get", c.val \o path, r.status)), r)

\* NGDPConnection.cdn_get from the result c of self.cdn on
RequestContent(c, path, r) ==
    IF c.exc # "ok" THEN c
    ELSE CheckStatus(Log(c.st, Event("cdn_get", c.val \o path, r.status)), r)

\* NGDPConnection.cdn_get
cdn_get(st, path, rc, r) == RequestContent(Cdn(st, rc), path, r)

\* "{0}/{1}/{2}/{3}".format( key, *parts )
RemotePath(key, parts) == key \o <<"/">> \o parts[1] \o <<"/">> \o parts[2] \o <<"/">> \o parts[3]

\* return data, at the end of get_or_cache
Return(st, key, hash, nameArg, data) ==
    Ok(Log(st, Event("return", <<key, hash, nameArg>>, data)), data)

\* a slip: the fetched content is returned and not written to the cache
StoreFetchedNot(d, key, hash, nameArg, name) ==
    IF d.exc # "ok" THEN d ELSE Return(d.st, key, hash, nameArg, d.val)

\* the miss branch of get_or_cache from the result d of cdn_get on
StoreFetched(d, key, hash, nameArg, name) ==
    IF d.exc # "ok" THEN d
    ELSE Return(Log([d.st EXCEPT !.cache = CacheWrite(@, key, name, d.val)],
                    Event("write", <<key, name>>, d.val)),
                key, hash, nameArg, d.val)

\* the miss branch of get_or_cache interrupted inside cache.write, after open() and
\* before the with block is left: the file holds the first n lines of the data
StoreInterrupted(d, key, name, n) ==
    IF d.exc # "ok" THEN d
    ELSE Raise(Log([d.st EXCEPT !.cache = FileWrite(CacheOpen(@, key, name),
                                                     Join(<<Join(<<Basedir, key>>), name>>),
                                                     SubSeq(d.val, 1, n))],
                   Event("interrupt", <<key, name>>, d.val)),
               "KeyboardInterrupt")

\* the hit branch of get_or_cache
LoadCached(st, key, hash, nameArg, name, data) ==
    Return(Log(st, Event("read", <<key, name>>, data)), key, hash, nameArg, data)

\* a slip: the CDN base URL is resolved before the cache is looked at
FetchOrLoadEager(st, key, hash, nameArg, name, rc, r) ==
    IF ~CacheContains(st.cache, key, name)
    THEN StoreFetched(cdn_get(st, RemotePath(key, split_hash(name)), rc, r),
                      key, hash, nameArg, name)
    ELSE LoadCached(Cdn(st, rc).st, key, hash, nameArg, name, CacheGet(st.cache, key, name))

\* a slip: the content is fetched and written whether the cache has it or not
FetchOrLoadAlways(st, key, hash, nameArg, name, rc, r) ==
    StoreFetched(cdn_get(st, RemotePath(key, split_hash(name)), rc, r),
                 key, hash, nameArg, name)

\* get_or_cache once name is set
FetchOrLoad(st, key, hash, nameArg, name, rc, r) ==
    IF ~CacheContains(st.cache, key, name)
    THEN StoreFetched(cdn_get(st, RemotePath(key, split_hash(name)), rc, r),
                      key, hash, nameArg, name)
    ELSE LoadCached(st, key, hash, nameArg, name, CacheGet(st.cache, key, name))

\* NGDPConnection.get_or_cache; nameArg is <<>> for the default name=None
get_or_cache(st, key, hash, nameArg, rc, r) ==
    FetchOrLoad(st, key, hash, nameArg, IF nameArg = <<>> THEN hash ELSE nameArg[1], rc, r)

\* config.readfp( StringIO( data.decode( "utf-8" ) ) ) for the result d of get_or_cache
ParseConfig(d) == IF d.exc # "ok" THEN d ELSE Ok(d.st, Readfp(EmptyINI, d.val))

\* NGDPConnection.get_config
get_config(st, hash, rc, r) == ParseConfig(get_or_cache(st, KeyConfig, hash, <<>>, rc, r))

\* return index, data
DataPair(index, data) ==
    IF data.exc # "ok" THEN data ELSE Ok(data.st, <<index, data.val>>)

\* NGDPConnection.get_data from the result of its first get_or_cache on
DataAfterIndex(index, hash, rc, r2) ==
    IF index.exc # "ok" THEN index
    ELSE DataPair(index.val, get_or_cache(index.st, KeyData, hash, <<>>, rc, r2))

\* return index, data, for the data fetched first
DataPairSwapped(data, index) ==
    IF index.exc # "ok" THEN index ELSE Ok(index.st, <<index.val, data>>)

\* the index fetched after the data object
DataBeforeIndex(data, hash, rc, r1) ==
    IF data.exc # "ok" THEN data
    ELSE DataPairSwapped(data.val,
                         get_or_cache(data.st, KeyData, hash, Some(hash \o IndexSuffix), rc, r1))

\* a slip: the data object is resolved before its index
get_data_swapped(st, hash, rc, r1, r2) ==
    DataBeforeIndex(get_or_cache(st, KeyData, hash, <<>>, rc, r2), hash, rc, r1)

\* NGDPConnection.get_data
get_data(st, hash, rc, r1, r2) ==
    DataAfterIndex(get_or_cache(st, KeyData, hash, Some(hash \o IndexSuffix), rc, r1),
                   hash, rc, r2)

\* NGDPConnection.get_patch
get_patch(st, hash, rc, r) == get_or_cache(st, KeyPatch, hash, <<>>, rc, r)

\* get_config of a row's field: os.path.join in NGDPCache.contains takes a str only
get_config_of(st, field, rc, r) ==
    IF field.t # "str" THEN Raise(st, "TypeError") ELSE get_config(st, field.s, rc, r)

\* a slip: the loop of versions without its test of the region
NextRowAny(rows, i, reg) == IF i <= Len(rows) THEN i ELSE 0

\* the first row from index i on that the loop of versions does not pass over, 0 for none
NextRow(rows, i, reg) ==
    LET stop(j) == ColRegion \notin DOMAIN rows[j] \/ rows[j][ColRegion] = Str(reg)
    IN  IF \E j \in i..Len(rows) : stop(j)
        THEN CHOOSE j \in i..Len(rows) : stop(j) /\ \A k \in i..(j - 1) : ~stop(k)
        ELSE 0

\* the row at index j of the memoized /versions list
RowAt(st, j) == st.obj[PathVersions][j]

\* row[col] = value, for the row at index j of the memoized /versions list
SetField(st, j, col, value) == [st EXCEPT !.obj[PathVersions][j][col] = value]

\* yield row
Yield(st, j) == Ok(st, <<j, RowAt(st, j)>>)

\* row["CDNConfig"] = the result c of get_config, then the yield
AfterCdnConfig(c, j) ==
    IF c.exc # "ok" THEN c ELSE Yield(SetField(c.st, j, ColCDNConfig, Obj(c.val)), j)

\* self.get_config( row["CDNConfig"] )
CdnConfigOfRow(st, j, rc, r2) ==
    IF ColCDNConfig \notin DOMAIN RowAt(st, j) THEN Raise(st, "KeyError")
    ELSE AfterCdnConfig(get_config_of(st, RowAt(st, j)[ColCDNConfig], rc, r2), j)

\* row["BuildConfig"] = the result b of get_config, then the next line
AfterBuildConfig(b, j, rc, r2) ==
    IF b.exc # "ok" THEN b
    ELSE CdnConfigOfRow(SetField(b.st, j, ColBuildConfig, Obj(b.val)), j, rc, r2)

\* the body of the loop of versions for the row at index j, 0 when the loop is over
RowStep(st, j, rc, r1, r2) ==
    IF j = 0 THEN Raise(st, "StopIteration")
    ELSE IF {ColRegion, ColBuildConfig} \ DOMAIN RowAt(st, j) # {} THEN Raise(st, "KeyError")
    ELSE AfterBuildConfig(get_config_of(st, RowAt(st, j)[ColBuildConfig], rc, r1), j, rc, r2)

\* the versions generator from the row at index i to its next yield: val is
\* <<j, row>> for the row yielded at index j
VersionsLoop(st, i, rc, r1, r2) ==
    RowStep(st, NextRow(st.obj[PathVersions], i, region), rc, r1, r2)

\* the loop of versions over the result m of _get_cached_csv( "/versions" )
LoopOver(m, rc, r1, r2) == IF m.exc # "ok" THEN m ELSE VersionsLoop(m.st, 1, rc, r1, r2)

\* the first next() of a versions generator
VersionsFirst(st, rv, rc, r1, r2) ==
    LoopOver(_get_cached_csv(st, PathVersions, rv), rc, r1, r2)

(***************************************************************************)
(* The client as a state machine: one action per public operation          *)
(***************************************************************************)

MaxOps == 3

Call(name, args) == [name |-> name, args |-> args]

NoCall == Call("none", <<>>)

NewGen == [pc |-> "none", i |-> 0, out |-> <<>>]

\* the cache directory may hold a file of an earlier run
InitialCaches == {EmptyDict, CacheWrite(EmptyDict, KeyConfig, HashA, ConfigOne)}

Threads == {"t1", "t2"}

\* a thread that has not called get_or_cache
Idle == [pc |-> "idle", args |-> <<>>, data |-> <<>>]

ClientInit ==
    /\ region = RegionKr
    /\ cache \in InitialCaches
    /\ obj_cache = EmptyDict
    /\ cdn_host = <<>>
    /\ gen = NewGen
    /\ op = NoCall
    /\ outcome = "ok"
    /\ ret = <<>>
    /\ trace = <<>>
    /\ succeeded = {}
    /\ asked = [p \in Paths |-> 0]
    /\ manifest = EmptyDict
    /\ nops = 0

Init ==
    /\ ClientInit
    /\ ini = EmptyINI
    /\ iniText = <<>>
    /\ iniLog = <<>>
    /\ iniPc = "new"
    /\ threads = [t \in Threads |-> Idle]

\* the state an operation starts in
Start ==
    [cache |-> cache, obj |-> obj_cache, cdn |-> cdn_host, tr |-> <<>>, asked |-> asked,
     text |-> manifest]

\* the argument triples of the get_or_cache calls that returned, among the events tr
Returned(tr) == {tr[i].k : i \in {j \in 1..Len(tr) : tr[j].e = "return"}}

\* an operation o that ends as res, leaving the generator as g
Step(o, res, g) ==
    /\ nops < MaxOps
    /\ nops' = nops + 1
    /\ cache' = res.st.cache
    /\ obj_cache' = res.st.obj
    /\ cdn_host' = res.st.cdn
    /\ asked' = res.st.asked
    /\ manifest' = res.st.text
    /\ trace' = res.st.tr
    /\ outcome' = res.exc
    /\ ret' = res.val
    /\ op' = o
    /\ gen' = g
    /\ succeeded' = succeeded \cup Returned(trace)
    /\ UNCHANGED <<region, iniVars, threads>>

\* the answers to GET /cdns and GET /versions an operation may meet: the request is
\* made only for a path that is not memoized (the first test of _get_cached_csv)
CdnsAnswers ==
    IF PathCdns \in DOMAIN obj_cache THEN {Resp(StatusOK, CdnsNoRows)} ELSE CdnsResponses

VersionsAnswers ==
    IF PathVersions \in DOMAIN obj_cache THEN {Resp(StatusOK, EmptyBody)}
    ELSE VersionsResponses

\* the generator after a next() that ended as res
GenAfter(g, res) ==
    IF res.exc = "ok"
    THEN [pc |-> "suspended", i |-> res.val[1], out |-> Append(g.out, res.val[2])]
    ELSE [pc |-> IF res.exc = "StopIteration" THEN "done" ELSE "raised",
          i |-> g.i, out |-> g.out]

\* a next() of the generator g that ends as res
NextOf(o, res, g) == Step(o, res, GenAfter(g, res))

\* conn.cdns
CdnsOp ==
    \E rc \in CdnsAnswers :
        Step(Call("cdns", <<>>), _get_cached_csv(Start, PathCdns, rc), gen)

\* conn.cdn
CdnOp ==
    \E rc \in CdnsAnswers : Step(Call("cdn", <<>>), Cdn(Start, rc), gen)

\* the arguments of the direct calls of get_or_cache: name defaulted, name = hash + ".index",
\* and a name that is another hash
GetOrCacheArgs ==
    {<<KeyConfig, HashA, <<>>>>, <<KeyData, HashA, Some(HashA \o IndexSuffix)>>,
     <<KeyPatch, HashB, Some(HashA)>>}

\* conn.get_or_cache( key, hash ) and conn.get_or_cache( key, hash, name )
GetOrCacheOp ==
    \E a \in GetOrCacheArgs, rc \in CdnsAnswers, r \in ContentResponses :
        Step(Call("get_or_cache", a), get_or_cache(Start, a[1], a[2], a[3], rc, r), gen)

\* conn.get_config( hash )
GetConfigOp ==
    \E hash \in Hashes, rc \in CdnsAnswers, r \in ContentResponses :
        Step(Call("get_config", <<hash>>), get_config(Start, hash, rc, r), gen)

\* conn.get_data( hash )
GetDataOp ==
    \E hash \in {HashA}, rc \in CdnsAnswers, r1 \in ContentResponses, r2 \in ContentResponses :
        Step(Call("get_data", <<hash>>), get_data(Start, hash, rc, r1, r2), gen)

\* conn.get_patch( hash )
GetPatchOp ==
    \E hash \in {HashA}, rc \in CdnsAnswers, r \in ContentResponses :
        Step(Call("get_patch", <<hash>>), get_patch(Start, hash, rc, r), gen)

\* for v in conn.versions: a new generator and its first next()
VersionsBegin ==
    \E rv \in VersionsAnswers, rc \in CdnsAnswers :
        \E r1 \in ContentResponses, r2 \in ContentResponses :
            NextOf(Call("versions_begin", <<>>), VersionsFirst(Start, rv, rc, r1, r2), NewGen)

\* the next next() of the generator suspended at a yield
VersionsResume ==
    /\ gen.pc = "suspended"
    /\ \E rc \in CdnsAnswers, r1 \in ContentResponses, r2 \in ContentResponses :
           NextOf(Call("versions_resume", <<>>), VersionsLoop(Start, gen.i + 1, rc, r1, r2), gen)

(***************************************************************************)
(* A FlatINI object and its caller: readfp over a text, and direct         *)
(* insertions                                                              *)
(***************************************************************************)

MaxLines == 3

MaxSets == 2

CfgLine5 == <<"k">>

CfgLine6 == <<"a", "=", "x", "=", "y">>

IniLines == {CfgLine1, CfgLine2, CfgLine3, CfgLine4, CfgLine5, CfgLine6, <<>>}

IniKeys == {<<"a">>, <<"b">>}

IniValues == {<<"1">>, <<"2">>}

\* the texts of at most n lines
RECURSIVE TextsUpTo(_)
TextsUpTo(n) ==
    IF n = 0 THEN {<<>>}
    ELSE LET shorter == TextsUpTo(n - 1)
         IN  shorter \cup {Append(t, l) : t \in {u \in shorter : Len(u) = n - 1}, l \in IniLines}

\* the <<key, value>> pairs of the lines of a text that readfp does not skip, in order
RECURSIVE Pairs(_)
Pairs(lines) ==
    IF lines = <<>> THEN <<>>
    ELSE LET kv == LinePair(Head(lines))
         IN  (IF kv = <<>> THEN <<>> ELSE <<kv>>) \o Pairs(Tail(lines))

InitINI ==
    /\ ClientInit
    /\ cache = EmptyDict
    /\ ini = EmptyINI
    /\ iniText \in TextsUpTo(MaxLines)
    /\ iniLog = <<>>
    /\ iniPc = "new"
    /\ threads = [t \in Threads |-> Idle]

\* config.readfp( StringIO( text ) ): readfp has no raise statement and every str
\* method it calls is total, so it returns
INIReadfp ==
    /\ iniPc = "new"
    /\ ini' = Readfp(ini, iniText)
    /\ iniLog' = iniLog \o Pairs(iniText)
    /\ iniPc' = "read"
    /\ UNCHANGED <<iniText, clientVars, threads>>

\* config[key] = value
INISetItem ==
    /\ Len(iniLog) < MaxSets + (IF iniPc = "read" THEN Len(Pairs(iniText)) ELSE 0)
    /\ \E key \in IniKeys, value \in IniValues :
           /\ ini' = SetItem(ini, key, value)
           /\ iniLog' = Append(iniLog, <<key, value>>)
    /\ UNCHANGED <<iniText, iniPc, clientVars, threads>>

(***************************************************************************)
(* _parse_csv over the reader of a text                                    *)
(***************************************************************************)

MaxRows == 3

CsvHeaderNamePath == <<"N", "a", "m", "e", "!", "S", "T", "R", "I", "N", "G", ":", "0", "|", "P", "a", "t", "h", "!", "S", "T", "R", "I", "N", "G", ":", "0">>

CsvRowUs == <<"u", "s", "|", "t", "p", "r", "/", "w", "o", "w">>

CsvRowOneCell == <<"k", "r">>

CsvHeaders == {CsvHeaderNamePath, CdnsHeader}

\* data lines of two cells, of three, of one, and an empty line
CsvRows == {CsvRowUs, CdnsRowEu, CsvRowOneCell, <<>>}

\* the header h followed by at most n data lines
RECURSIVE CsvTextsOf(_, _)
CsvTextsOf(h, n) ==
    IF n = 0 THEN {<<h>>}
    ELSE LET shorter == CsvTextsOf(h, n - 1)
         IN  shorter \cup {Append(t, l) : t \in {u \in shorter : Len(u) = n}, l \in CsvRows}

\* the texts handed to csv.reader: a header and data lines, or nothing at all
CsvTexts == {<<>>} \cup UNION {CsvTextsOf(h, MaxRows) : h \in CsvHeaders}

\* conn._parse_csv( csv.reader( StringIO( text ), delimiter="|" ) )
ParseCsvOp ==
    \E text \in CsvTexts :
        Step(Call("_parse_csv", <<text>>), ParseRows(Start, CsvReader(text)), gen)

SpecCSV == Init /\ [][ParseCsvOp]_vars

(***************************************************************************)
(* The cache object and its caller                                         *)
(***************************************************************************)

CacheKeys == {KeyConfig, KeyData}

CacheNames == {HashA, HashA \o IndexSuffix}

CacheContents == {ConfigOne, ConfigTwo, <<>>}

\* conn.cache.contains( key, name )
CacheContainsOp ==
    \E key \in CacheKeys, name \in CacheNames :
        Step(Call("cache.contains", <<key, name>>),
             Ok(Start, CacheContains(cache, key, name)), gen)

\* conn.cache.get( key, name ): open() of a missing file raises FileNotFoundError
CacheGetOp ==
    \E key \in CacheKeys, name \in CacheNames :
        Step(Call("cache.get", <<key, name>>),
             IF CachePath(key, name) \in DOMAIN cache THEN Ok(Start, CacheGet(cache, key, name))
             ELSE Raise(Start, "FileNotFoundError"),
             gen)

\* conn.cache.write( key, name, data, hash )
CacheWriteOp ==
    \E key \in CacheKeys, name \in CacheNames, data \in CacheContents :
        Step(Call("cache.write", <<key, name, data>>),
             Ok([Start EXCEPT !.cache = CacheWrite(@, key, name, data)], <<>>), gen)

NextCache ==
    \/ CacheContainsOp
    \/ CacheGetOp
    \/ CacheWriteOp

SpecCache == Init /\ [][NextCache]_vars

(***************************************************************************)
(* get_or_cache and its interruption (a KeyboardInterrupt, a kill) between *)
(* the open() and the end of the with block of NGDPCache.write             *)
(***************************************************************************)

\* conn.get_or_cache( key, hash, name ) that misses, fetches and is interrupted while
\* it writes
GetOrCacheInterrupted ==
    \E a \in GetOrCacheArgs, rc \in CdnsAnswers, r \in ContentResponses :
        \E n \in 0..Len(r.body) :
            /\ ~CacheContains(cache, a[1], IF a[3] = <<>> THEN a[2] ELSE a[3][1])
            /\ r.status = StatusOK
            /\ Step(Call("get_or_cache", a),
                    StoreInterrupted(cdn_get(Start,
                                             RemotePath(a[1], split_hash(IF a[3] = <<>> THEN a[2]
                                                                         ELSE a[3][1])),
                                             rc, r),
                                     a[1], IF a[3] = <<>> THEN a[2] ELSE a[3][1], n),
                    gen)

NextCancel ==
    \/ GetOrCacheOp
    \/ GetOrCacheInterrupted

SpecCancel == Init /\ [][NextCancel]_vars

(***************************************************************************)
(* Two threads that call get_or_cache on one client.  A thread is switched *)
(* between the statements of get_or_cache; the events of all the calls are *)
(* kept in trace in the order they happen.                                 *)
(***************************************************************************)

\* the arguments of the threads' calls
ThreadArgs == {<<KeyConfig, HashB, <<>>>>, <<KeyData, HashA, <<>>>>}

\* the state a statement of a thread starts in
Shared ==
    [cache |-> cache, obj |-> obj_cache, cdn |-> cdn_host, tr |-> trace, asked |-> asked,
     text |-> manifest]

\* the shared state after a statement of thread t that ends as res, t going on as th
ThreadStep(t, res, th) ==
    /\ cache' = res.st.cache
    /\ obj_cache' = res.st.obj
    /\ cdn_host' = res.st.cdn
    /\ asked' = res.st.asked
    /\ manifest' = res.st.text
    /\ trace' = res.st.tr
    /\ threads' = [threads EXCEPT ![t] = th]
    /\ UNCHANGED <<region, gen, op, outcome, ret, succeeded, nops, iniVars>>

\* where a thread is after its cdn_get ended as d
AfterFetch(a, d) ==
    IF d.exc = "ok" THEN [pc |-> "fetched", args |-> a, data |-> d.val]
    ELSE [pc |-> d.exc, args |-> a, data |-> <<>>]

\* if not self.cache.contains( key, name ), with name = hash
ThreadContains(t) ==
    /\ threads[t].pc = "idle"
    /\ \E a \in ThreadArgs :
           ThreadStep(t, Ok(Shared, <<>>),
                      [pc |-> IF CacheContains(cache, a[1], a[2]) THEN "hit" ELSE "miss",
                       args |-> a, data |-> <<>>])

\* data = self.cdn_get( ... )
ThreadFetch(t) ==
    /\ threads[t].pc = "miss"
    /\ \E rc \in CdnsAnswers, r \in ContentResponses :
           ThreadStep(t,
                      cdn_get(Shared, RemotePath(threads[t].args[1],
                                                 split_hash(threads[t].args[2])), rc, r),
                      AfterFetch(threads[t].args,
                                 cdn_get(Shared, RemotePath(threads[t].args[1],
                                                            split_hash(threads[t].args[2])),
                                         rc, r)))

\* self.cache.write( key, name, data, hash ); return data
ThreadWrite(t) ==
    /\ threads[t].pc = "fetched"
    /\ ThreadStep(t,
                  StoreFetched(Ok(Shared, threads[t].data), threads[t].args[1],
                               threads[t].args[2], <<>>, threads[t].args[2]),
                  [threads[t] EXCEPT !.pc = "done"])

\* data = self.cache.get( key, name ); return data
ThreadGet(t) ==
    /\ threads[t].pc = "hit"
    /\ ThreadStep(t,
                  LoadCached(Shared, threads[t].args[1], threads[t].args[2], <<>>,
                             threads[t].args[2],
                             CacheGet(cache, threads[t].args[1], threads[t].args[2])),
                  [threads[t] EXCEPT !.pc = "done",
                                     !.data = CacheGet(cache, threads[t].args[1],
                                                       threads[t].args[2])])

NextThreads ==
    \E t \in Threads :
        \/ ThreadContains(t)
        \/ ThreadFetch(t)
        \/ ThreadWrite(t)
        \/ ThreadGet(t)

SpecThreads == Init /\ [][NextThreads]_vars

NextINI ==
    \/ INIReadfp
    \/ INISetItem

SpecINI == InitINI /\ [][NextINI]_vars

Next ==
    \/ CdnsOp
    \/ CdnOp
    \/ GetOrCacheOp
    \/ GetConfigOp
    \/ GetDataOp
    \/ GetPatchOp
    \/ VersionsBegin
    \/ VersionsResume

Spec == Init /\ [][Next]_vars

(***************************************************************************)
(* The claims                                                              *)
(***************************************************************************)

\* the number of events of one kind among the events tr
Count(tr, kind) == Cardinality({i \in 1..Len(tr) : tr[i].e = kind})

CdnGets(tr) == Count(tr, "cdn_get")

\* the requests of either host among the events tr
Requests(tr) == {i \in 1..Len(tr) : tr[i].e \in {"cdn_get", "patch_get"}}

\* the cache name of a get_or_cache argument triple
NameOf(a) == IF a[3] = <<>> THEN a[2] ELSE a[3][1]

\* <key>/<h[0:2]>/<h[2:4]>/<h> for a string h of four characters or more
ShardedPath(key, h) ==
    key \o <<"/">> \o <<h[1], h[2]>> \o <<"/">> \o <<h[3], h[4]>> \o <<"/">> \o h

\* the step is a client operation named n
Does(n) == nops' = nops + 1 /\ op'.name = n

\* C1: a get_or_cache call whose arguments have returned successfully before issues
\* no CDN content request and succeeds; of two calls in a row with the same
\* arguments, the second returns the bytes of the first and issues no request, and
\* the first, when it started without the cache entry, issued exactly one.
C1_FetchIdempotent ==
    [][Does("get_or_cache") =>
           /\ op'.args \in succeeded \cup Returned(trace) =>
                  outcome' = "ok" /\ CdnGets(trace') = 0
           /\ (op.name = "get_or_cache" /\ op.args = op'.args /\ outcome = "ok") =>
                  /\ outcome' = "ok"
                  /\ ret' = ret
                  /\ CdnGets(trace') = 0
                  /\ Count(trace, "read") = 0 => CdnGets(trace) = 1]_vars

\* a repeated get_or_cache( "data", hash, name=hash+".index" ): no run starts with
\* that cache entry, so the earlier call fetched it
C1_Witness ==
    /\ op = Call("get_or_cache", <<KeyData, HashA, Some(HashA \o IndexSuffix)>>)
    /\ op.args \in succeeded
    /\ outcome = "ok"
    /\ Count(trace, "read") = 1

\* C2: a get_or_cache call made while the cache contains (key, name) returns the
\* stored bytes, issues no request to the CDN or to the patch host, and leaves
\* _cdn_host and _obj_cache as they were.
C2_HitSkipsNetwork ==
    [][(Does("get_or_cache") /\ CacheContains(cache, op'.args[1], NameOf(op'.args))) =>
           /\ outcome' = "ok"
           /\ ret' = CacheGet(cache, op'.args[1], NameOf(op'.args))
           /\ Requests(trace') = {}
           /\ cdn_host' = cdn_host
           /\ obj_cache' = obj_cache
           /\ asked' = asked]_vars

\* a hit served while the CDN base URL is unresolved and no manifest is memoized
C2_Witness ==
    /\ op.name = "get_or_cache"
    /\ Count(trace, "read") = 1
    /\ cdn_host = <<>>
    /\ obj_cache = EmptyDict

\* C3 as claimed: every CDN content request of get_or_cache( key, hash, name ) is for
\* <cdnBaseURL>/<key>/<hash[0:2]>/<hash[2:4]>/<hash>.
C3_RemotePathFromHash ==
    op.name = "get_or_cache" =>
        \A i \in 1..Len(trace) :
            trace[i].e = "cdn_get" =>
                trace[i].k = cdn_host[1] \o ShardedPath(op.args[1], op.args[2])

\* C3 as amended: on a miss get_or_cache( key, hash, name ) issues one CDN content
\* request, for <cdnBaseURL>/<key>/<name[0:2]>/<name[2:4]>/<name> (name is hash when
\* defaulted), no request on a hit, and a call that returns after a miss has stored
\* the bytes it returns under (key, name).
C3_RemotePathFromName ==
    op.name = "get_or_cache" =>
        LET key == op.args[1]
            name == NameOf(op.args)
            miss == Count(trace, "read") = 0
        IN  /\ \A i \in 1..Len(trace) :
                   trace[i].e = "cdn_get" =>
                       /\ cdn_host # <<>>
                       /\ trace[i].k = cdn_host[1] \o ShardedPath(key, name)
            /\ CdnGets(trace) = IF miss /\ outcome \in {"ok", "ServerError"} THEN 1 ELSE 0
            /\ (miss /\ outcome = "ok") =>
                   /\ CacheContains(cache, key, name)
                   /\ CacheGet(cache, key, name) = ret
                   /\ \E i \in 1..Len(trace) :
                          trace[i] = Event("write", <<key, name>>, ret)

\* a miss of a call whose name differs from its hash, fetched and stored
C3_Witness ==
    /\ op.name = "get_or_cache"
    /\ op.args[3] # <<>>
    /\ outcome = "ok"
    /\ CdnGets(trace) = 1

\* C4 as claimed: a request of either host answered with a status other than 200
\* makes the operation raise ServerError, and such an answer of the patch host is
\* neither written to the cache nor memoized.
C4_NonSuccessRaises ==
    \A i \in 1..Len(trace) :
        (trace[i].e \in {"cdn_get", "patch_get"} /\ trace[i].v # StatusOK) =>
            /\ outcome = "ServerError"
            /\ trace[i].e = "patch_get" =>
                   Count(trace, "write") = 0 /\ trace[i].k \notin DOMAIN obj_cache

\* the part of a Hosts value before its first space
FirstHost(hosts) ==
    LET spaces == {i \in 1..Len(hosts) : hosts[i] = " "}
    IN  IF spaces = {} THEN hosts
        ELSE SubSeq(hosts, 1, (CHOOSE i \in spaces : \A j \in spaces : i <= j) - 1)

\* the index of the descriptor the claim selects from a non-empty list
Chosen(rows, reg) ==
    LET named == {i \in 1..Len(rows) : rows[i][ColName].s = reg}
    IN  IF named = {} THEN 1 ELSE CHOOSE i \in named : \A j \in named : i <= j

UrlFallback == <<"h", "t", "t", "p", ":", "/", "/", "e", "1", ".", "c", "d", "n", "/", "t", "p", "r", "/", "e", "u", "/">>

\* C5: a resolved CDN base URL is http://<first host>/<Path>/ of the first descriptor
\* named as the region, or of the first descriptor when none is; with descriptors
\* eu, us and region kr that is the eu descriptor; and conn.cdn over a non-empty list
\* raises nothing.
C5_CdnSelection ==
    /\ cdn_host # <<>> =>
           /\ PathCdns \in DOMAIN obj_cache
           /\ obj_cache[PathCdns] # <<>>
           /\ LET d == obj_cache[PathCdns][Chosen(obj_cache[PathCdns], region)]
              IN  cdn_host[1] =
                      HttpScheme \o FirstHost(d[ColHosts].s) \o <<"/">> \o d[ColPath].s \o <<"/">>
           /\ manifest[PathCdns] = CdnsEuUs => cdn_host[1] = UrlFallback
    /\ (op.name = "cdn" /\ PathCdns \in DOMAIN obj_cache /\ obj_cache[PathCdns] # <<>>) =>
           outcome = "ok" /\ cdn_host = <<ret>>

\* conn.cdn resolved from a list in which no descriptor is named as the region
C5_Witness ==
    /\ op.name = "cdn"
    /\ outcome = "ok"
    /\ cdn_host # <<>>
    /\ \A i \in 1..Len(obj_cache[PathCdns]) : obj_cache[PathCdns][i][ColName].s # region

\* C6: while the memoized /cdns list is empty the CDN base URL is unresolved, no
\* operation issues a CDN content request or raises the plain ServerError, and
\* conn.cdn and every get_or_cache that misses raise ServerConfigurationError.
C6_EmptyCdnList ==
    (PathCdns \in DOMAIN obj_cache /\ obj_cache[PathCdns] = <<>>) =>
        /\ cdn_host = <<>>
        /\ CdnGets(trace) = 0
        /\ outcome # "ServerError"
        /\ op.name = "cdn" => outcome = "ServerConfigurationError"
        /\ (op.name \in {"get_or_cache", "get_config", "get_patch"} /\ Count(trace, "read") = 0)
               => outcome = "ServerConfigurationError"
        /\ (op.name = "get_data" /\ Count(trace, "read") < 2)
               => outcome = "ServerConfigurationError"

\* a get_or_cache miss that fetched /cdns, got a header and no row, and raised
C6_Witness ==
    /\ op.name = "get_or_cache"
    /\ outcome = "ServerConfigurationError"
    /\ \E i \in 1..Len(trace) : trace[i] = Event("patch_get", PathCdns, StatusOK)
    /\ manifest[PathCdns] = CdnsNoRows

\* C7: once _cdn_host is set no operation changes it, and none requests /cdns.
C7_CdnResolvedOnce ==
    [][cdn_host # <<>> =>
           cdn_host' = cdn_host /\ asked'[PathCdns] = asked[PathCdns]]_vars

\* a content request issued with a base URL that an earlier operation resolved
C7_Witness ==
    /\ <<KeyData, HashA, Some(HashA \o IndexSuffix)>> \in succeeded
    /\ CdnGets(trace) = 1
    /\ Count(trace, "patch_get") = 0
    /\ cdn_host # <<>>
    /\ asked[PathCdns] = 1

\* C8 as claimed: at most one patch-host request is ever issued per manifest path.
C8_OneRequestPerPath == \A p \in Paths : asked[p] <= 1

\* C8 as amended: no request is issued for a memoized path, and a path stays
\* memoized; an operation issues at most one request per path, and a request that
\* leaves its path unmemoized ended in the IndexError of an empty body.
C8_MemoizedNotRefetched ==
    [][\A p \in Paths :
           /\ asked'[p] <= asked[p] + 1
           /\ p \in DOMAIN obj_cache => (asked'[p] = asked[p] /\ p \in DOMAIN obj_cache')
           /\ (asked'[p] # asked[p] /\ p \notin DOMAIN obj_cache') => outcome' = "IndexError"]_vars

\* an iteration of versions that found /versions memoized and requested nothing
C8_Witness ==
    /\ op.name = "versions_begin"
    /\ PathVersions \in DOMAIN obj_cache
    /\ asked[PathVersions] = 1
    /\ Count(trace, "patch_get") = 0

\* the data lines of a /versions text whose first field, Region, is reg
RegionLines(text, reg) == SelectSeq(Tail(text), LAMBDA l : Split(l, "|")[1] = reg)

\* the configuration stored in the cache for a hash
ConfigOf(hash) == Readfp(EmptyINI, CacheGet(cache, KeyConfig, hash))

\* the row the claim expects for a data line Region|BuildConfig|CDNConfig
ExpectedRow(line) ==
    LET f == Split(line, "|")
    IN  (ColRegion :> Str(f[1])) @@ (ColBuildConfig :> Obj(ConfigOf(f[2])))
            @@ (ColCDNConfig :> Obj(ConfigOf(f[3])))

\* C9: the rows a versions generator has yielded are, in order, the first data lines
\* of the /versions text whose Region is the client's, each with the configurations
\* of its two hashes in place of the hashes; a generator that has ended has yielded
\* them all; a next() that returns returns the row it adds.
C9_VersionsInOrder ==
    /\ PathVersions \notin DOMAIN manifest => gen.out = <<>>
    /\ PathVersions \in DOMAIN manifest =>
           LET lines == RegionLines(manifest[PathVersions], region)
           IN  /\ Len(gen.out) <= Len(lines)
               /\ \A i \in 1..Len(gen.out) : gen.out[i] = ExpectedRow(lines[i])
               /\ gen.pc = "done" => Len(gen.out) = Len(lines)
    /\ (op.name \in {"versions_begin", "versions_resume"} /\ outcome = "ok") =>
           gen.pc = "suspended" /\ ret[2] = gen.out[Len(gen.out)]

\* an iteration that ran to its end over a text with two rows of the region
C9_Witness ==
    /\ gen.pc = "done"
    /\ Len(gen.out) = 2
    /\ Len(manifest[PathVersions]) = 4

\* the bag of the elements of a sequence
BagOf(s) ==
    [x \in {s[i] : i \in 1..Len(s)} |-> Cardinality({i \in 1..Len(s) : s[i] = x})]

\* the values, in order, of the pairs of a log that have the key
RECURSIVE ValuesOf(_, _)
ValuesOf(log, key) ==
    IF log = <<>> THEN <<>>
    ELSE (IF Head(log)[1] = key THEN <<Head(log)[2]>> ELSE <<>>) \o ValuesOf(Tail(log), key)

\* C10: the pairs of items() are, as a bag, the pairs stored through __setitem__ (by
\* readfp or directly); every key has one entry, a scalar for a key stored once and
\* otherwise the list of its values in the order they were stored.
C10_Accumulate ==
    /\ BagOf(Items(ini)) = BagOf(iniLog)
    /\ \A i, j \in 1..Len(ini) : ini[i].k = ini[j].k => i = j
    /\ \A i \in 1..Len(ini) :
           LET occ == ValuesOf(iniLog, ini[i].k)
           IN  IF Len(occ) = 1 THEN ~ini[i].list /\ ini[i].v = occ[1]
               ELSE ini[i].list /\ ini[i].v = occ

\* a key read twice from a text and stored a third time directly
C10_Witness ==
    /\ iniPc = "read"
    /\ Len(iniLog) > Len(Pairs(iniText))
    /\ \E i \in 1..Len(ini) : ini[i].list /\ Len(ini[i].v) >= 3

\* the line is neither blank nor a comment, so readfp does not skip it
Kept(rawline) == Strip(rawline) # <<>> /\ ~StartsWith(Strip(rawline), <<"#">>)

\* every line of the text that is not skipped has a "="
WellFormed(lines) == \A i \in 1..Len(lines) : Kept(lines[i]) => Find(lines[i], "=") # 0

\* C11 as claimed: for a well-formed text, the pairs of str( parse( text ) ), read back
\* line by line, are the pairs of the key=value lines of the text in the same order,
\* and so are the pairs of items().
C11_RoundTripOrder ==
    (iniPc = "read" /\ iniLog = Pairs(iniText) /\ WellFormed(iniText)) =>
        /\ Pairs(__str__(ini)) = Pairs(iniText)
        /\ Items(ini) = Pairs(iniText)

\* C12 as claimed: readfp over a text with a kept line that has no "=" fails with
\* ParseError and stores nothing for that line; blank and comment lines add no entry.
C12_MalformedRejected ==
    (iniPc # "new" /\ iniLog = Pairs(iniText)) =>
        /\ (\E i \in 1..Len(iniText) : Kept(iniText[i]) /\ Find(iniText[i], "=") = 0) =>
               iniPc = "ParseError"
        /\ \A i \in 1..Len(iniText) :
               (Kept(iniText[i]) /\ Find(iniText[i], "=") = 0) => ~HasKey(ini, Strip(iniText[i]))
        /\ Len(Items(ini)) <= Cardinality({i \in 1..Len(iniText) : Kept(iniText[i])})

\* the part of a header cell before its first "!"
ColumnName(cell) ==
    IF Find(cell, "!") = 0 THEN cell ELSE SubSeq(cell, 1, Find(cell, "!") - 1)

CellUs == <<"u", "s">>

CellTprWow == <<"t", "p", "r", "/", "w", "o", "w">>

\* C13: _parse_csv over a header line and data lines returns one row per data line,
\* in the order of the lines; the row of a line maps the name of the i-th header cell
\* (the cell up to its first "!") to the i-th cell of the line, for every i that
\* both have; header Name!STRING:0|Path!STRING:0 with the line us|tpr/wow gives
\* [{Name: us, Path: tpr/wow}].
C13_Positional ==
    (op.name = "_parse_csv" /\ op.args[1] # <<>>) =>
        LET text == op.args[1]
            header == CsvReader(text)[1]
        IN  /\ outcome = "ok"
            /\ Len(ret) = Len(text) - 1
            /\ \A j \in 1..(Len(text) - 1) :
                   LET cells == CsvReader(text)[j + 1]
                       n == Min(Len(header), Len(cells))
                   IN  /\ DOMAIN ret[j] = {ColumnName(header[i]) : i \in 1..n}
                       /\ \A i \in 1..n : ret[j][ColumnName(header[i])] = Str(cells[i])
            /\ text = <<CsvHeaderNamePath, CsvRowUs>> =>
                   ret = <<(ColName :> Str(CellUs)) @@ (ColPath :> Str(CellTprWow))>>

\* three data lines of which the first and the last are equal and the second is not
C13_Witness ==
    /\ op.name = "_parse_csv"
    /\ outcome = "ok"
    /\ Len(ret) = 3
    /\ ret[1] = ret[3]
    /\ DOMAIN ret[1] = {ColName, ColPath}
    /\ DOMAIN ret[2] = {ColName}

BasedirLiteral == <<"/", "h", "/", ".", "c", "a", "c", "h", "e", "/", "i", "n", "f", "o", ".", "h", "e", "a", "r", "t", "h", "s", "i", "m", ".", "k", "e", "g">>

\* <basedir>/<domain>/<namespace>/<name>
FlatPath(key, name) == BasedirLiteral \o <<"/">> \o key \o <<"/">> \o name

\* C14: write( key, name, data ) leaves data at <basedir>/<domain>/<key>/<name> and
\* every other file as it was; contains and get look at that same path and change
\* nothing, so a contains after the write is true and a get returns data; no file of
\* the cache is anywhere else.
C14_KeyConsistency ==
    [][/\ Does("cache.write") =>
              LET f == FlatPath(op'.args[1], op'.args[2])
              IN  /\ f \in DOMAIN cache'
                  /\ cache'[f] = op'.args[3]
                  /\ DOMAIN cache' = DOMAIN cache \cup {f}
                  /\ \A g \in DOMAIN cache \ {f} : cache'[g] = cache[g]
       /\ Does("cache.contains") =>
              /\ ret' = (FlatPath(op'.args[1], op'.args[2]) \in DOMAIN cache)
              /\ cache' = cache
       /\ Does("cache.get") =>
              /\ cache' = cache
              /\ IF FlatPath(op'.args[1], op'.args[2]) \in DOMAIN cache
                 THEN outcome' = "ok" /\ ret' = cache[FlatPath(op'.args[1], op'.args[2])]
                 ELSE outcome' = "FileNotFoundError"
       /\ (op.name = "cache.write" /\ Does("cache.contains")
               /\ SubSeq(op.args, 1, 2) = op'.args) => ret' = TRUE
       /\ (op.name = "cache.write" /\ Does("cache.get")
               /\ SubSeq(op.args, 1, 2) = op'.args) => outcome' = "ok" /\ ret' = op.args[3]
       /\ DOMAIN cache' \subseteq {FlatPath(k, n) : k \in CacheKeys, n \in CacheNames}]_vars

\* a get of ( "data", hash + ".index" ), which no run starts with, beside another file
C14_Witness ==
    /\ op = Call("cache.get", <<KeyData, HashA \o IndexSuffix>>)
    /\ outcome = "ok"
    /\ ret = ConfigTwo
    /\ Cardinality(DOMAIN cache) >= 2

\* the events tr have a CDN content request answered with another status than 200
FailedFetch(tr) == \E i \in 1..Len(tr) : tr[i].e = "cdn_get" /\ tr[i].v # StatusOK

\* C15: a get_or_cache whose CDN content request is answered with another status
\* than 200 raises ServerError after that one request, writes nothing under
\* (key, name) and leaves the cache without that entry and otherwise unchanged in
\* the content namespaces; the same call made again right after it issues the
\* request again.
C15_FailedFetch ==
    [][Does("get_or_cache") =>
           LET key == op'.args[1]
               name == NameOf(op'.args)
           IN  /\ FailedFetch(trace') =>
                      /\ outcome' = "ServerError"
                      /\ CdnGets(trace') = 1
                      /\ \A i \in 1..Len(trace') :
                             trace'[i].e = "write" => trace'[i].k[1] = KeyCdns
                      /\ ~CacheContains(cache', key, name)
                      /\ ~CacheContains(cache, key, name)
               /\ (op.name = "get_or_cache" /\ op.args = op'.args /\ FailedFetch(trace)) =>
                      /\ CdnGets(trace') = 1
                      /\ Count(trace', "read") = 0]_vars

\* a failed fetch right after the operation that resolved the CDN
C15_Witness ==
    /\ op.name = "get_or_cache"
    /\ outcome = "ServerError"
    /\ FailedFetch(trace)
    /\ Count(trace, "patch_get") = 0
    /\ ~CacheContains(cache, op.args[1], NameOf(op.args))
    /\ nops = 2

\* C16 as claimed: the memoized rows of a manifest path stay the rows parsed from its
\* text (BuildConfig and CDNConfig of the /versions rows stay the hash strings), and
\* no iteration of versions raises TypeError, as one over rows that are no longer
\* strings does.
C16_MemoNeverModified ==
    /\ \A p \in DOMAIN obj_cache : obj_cache[p] = _parse_csv(CsvReader(manifest[p]))
    /\ op.name \in {"versions_begin", "versions_resume"} => outcome # "TypeError"

\* C17 as claimed: after a get_or_cache interrupted while it wrote a cache entry, the
\* entry is absent or holds all the bytes that were fetched, and a get_or_cache that
\* returns returns all the bytes of a CDN answer.
C17_AtomicWrite ==
    /\ \A i \in 1..Len(trace) :
           trace[i].e = "interrupt" =>
               \/ ~CacheContains(cache, trace[i].k[1], trace[i].k[2])
               \/ CacheGet(cache, trace[i].k[1], trace[i].k[2]) = trace[i].v
    /\ (op.name = "get_or_cache" /\ outcome = "ok") =>
           ret \in {r.body : r \in {q \in ContentResponses : q.status = StatusOK}}

\* C18 as claimed: however the calls of the threads interleave, at most one CDN
\* content request per URL is answered with the content (a caller that finds another
\* fetching the same key waits for its result).
C18_SingleFlight ==
    \A i, j \in 1..Len(trace) :
        (/\ trace[i].e = "cdn_get" /\ trace[i].v = StatusOK
         /\ trace[j].e = "cdn_get" /\ trace[j].v = StatusOK
         /\ trace[i].k = trace[j].k) => i = j

ContentKeys == {KeyConfig, KeyData, KeyPatch}

\* the file f is an entry of a content namespace
IsContent(f) == \E k \in ContentKeys : StartsWith(f, BasedirLiteral \o <<"/">> \o k \o <<"/">>)

\* C19: no client operation removes an entry of the config, data or patch namespace
\* or changes its bytes.
C19_NeverEvicts ==
    [][\A f \in DOMAIN cache :
           IsContent(f) => f \in DOMAIN cache' /\ cache'[f] = cache[f]]_vars

\* a get_data that read the index entry the cache had and fetched and wrote the
\* data entry beside it
C19_Witness ==
    /\ op.name = "get_data"
    /\ outcome = "ok"
    /\ Count(trace, "read") = 1
    /\ CdnGets(trace) = 1
    /\ Cardinality({f \in DOMAIN cache : IsContent(f)}) >= 2

\* the events tr have a cache read or write of (key, name)
Touched(tr, key, name) ==
    \E i \in 1..Len(tr) : tr[i].e \in {"read", "write"} /\ tr[i].k = <<key, name>>

\* C20: in get_data( hash ) every cache access and CDN request for ("data", hash)
\* comes after a read or a write of ("data", hash + ".index"); when the index entry
\* was neither read nor written get_data raises, requests nothing but the index and
\* writes no data entry; when get_data returns, both entries are in the cache and
\* the pair returned is their bytes, index first.
C20_IndexBeforeData ==
    op.name = "get_data" =>
        LET hash == op.args[1]
            index == hash \o IndexSuffix
            forData(ev) == \/ ev.e \in {"read", "write"} /\ ev.k = <<KeyData, hash>>
                           \/ ev.e = "cdn_get" /\ ev.k = cdn_host[1] \o ShardedPath(KeyData, hash)
        IN  /\ \A j \in 1..Len(trace) :
                   forData(trace[j]) => Touched(SubSeq(trace, 1, j - 1), KeyData, index)
            /\ ~Touched(trace, KeyData, index) =>
                   /\ outcome # "ok"
                   /\ \A j \in 1..Len(trace) :
                          /\ trace[j].e = "cdn_get" =>
                                 trace[j].k = cdn_host[1] \o ShardedPath(KeyData, index)
                          /\ trace[j].e = "write" => trace[j].k[1] = KeyCdns
                   /\ CdnGets(trace) <= 1
            /\ outcome = "ok" =>
                   /\ CacheContains(cache, KeyData, index)
                   /\ CacheContains(cache, KeyData, hash)
                   /\ ret = <<CacheGet(cache, KeyData, index), CacheGet(cache, KeyData, hash)>>

\* a get_data whose index fetch the CDN answered with another status than 200
C20_Witness ==
    /\ op.name = "get_data"
    /\ outcome = "ServerError"
    /\ CdnGets(trace) = 1
    /\ ~Touched(trace, KeyData, op.args[1] \o IndexSuffix)
    /\ ~CacheContains(cache, KeyData, op.args[1])

====
